---- MODULE Spec2Model ----
(***************************************************************************)
(* Model of src/src/utils/simplex.rs: the constraint-system builder        *)
(* (LPBuilder), the two-phase revised simplex solver (LPSolver) and the    *)
(* branch-and-bound driver (branch_and_bound).                             *)
(*                                                                         *)
(* Numbers.  The builder stores i64 values; they are modelled as two's     *)
(* complement integers of IntWidth bits, so that, as for i64, the least    *)
(* value has no negation.  The solver computes in f64; the model computes  *)
(* the same expressions in exact rational arithmetic (a rational is a pair *)
(* <<numerator, denominator>> in lowest terms with denominator > 0), which *)
(* is what f64 yields whenever the intermediate values are representable.  *)
(* Column indices are 0-based as in the source; TLA+ sequences are         *)
(* 1-based, so column j of a matrix row r is r[j + 1].                     *)
(***************************************************************************)
EXTENDS Integers, Sequences, FiniteSets, TLC

VARIABLES
    objective,      \* LPBuilder.objective of the caller's builder
    constraints,    \* LPBuilder.constraints
    ans,            \* LPBuilder.ans
    ops,            \* LPBuilder.ops
    call,           \* the last call made, with its arguments
    pc,             \* control state
    solver,         \* the LPSolver made by build()
    queue,          \* branch_and_bound: queue
    best_solution,  \* branch_and_bound: best_solution
    best_minima,    \* branch_and_bound: best_minima
    lp,             \* branch_and_bound: the node popped from the queue
    nodes,          \* number of nodes popped so far
    stage,          \* 1 = Phase 1 (use_artificial_vars), 2 = Phase 2
    b_columns,      \* _revised_simplex_method: b_columns
    n_columns,      \* _revised_simplex_method: n_columns
    iterations,     \* _revised_simplex_method: iterations
    step,           \* what the last simplex loop iteration did
    solution,       \* the Result returned by solve()
    dsu,            \* a DisjointSet (disjointset.rs)
    interval_tree,  \* the root of an IntervalTree of interval_tree.rs
    intervaltree,   \* the root of an IntervalTree of intervaltree.rs
    stack,          \* year2025::day10::branch_and_bound: stack
    best            \* year2025::day10::branch_and_bound: best

builderVars == <<objective, constraints, ans, ops>>
bnbVars == <<queue, best_solution, best_minima, lp, nodes>>
simplexVars == <<stage, b_columns, n_columns, iterations, step>>
utilVars == <<dsu, interval_tree, intervaltree, stack, best>>
vars == <<objective, constraints, ans, ops, call, pc, solver, queue,
          best_solution, best_minima, lp, nodes, stage, b_columns, n_columns,
          iterations, step, solution, dsu, interval_tree, intervaltree,
          stack, best>>

(***************************************************************************)
(* Bounds of the model.                                                    *)
(***************************************************************************)
IntWidth == 6       \* bits of the modelled i64
MaxCalls == 2       \* rows a builder driven call by call may hold
MaxRows == 2        \* rows of a system handed to branch_and_bound
MaxNodes == 8       \* nodes branch_and_bound may pop in one run
LatticeMax == 5     \* largest coordinate of the integer points enumerated

MinInt == 0 - 2^(IntWidth - 1)
MaxInt == 2^(IntWidth - 1) - 1

(***************************************************************************)
(* Sequences and exact rationals.                                          *)
(***************************************************************************)
\* Evaluates a function over 1..n into a sequence value.
Force(f) == f \o <<>>

Abs(a) == IF a < 0 THEN 0 - a ELSE a

RECURSIVE GCD(_, _)
GCD(a, b) == IF b = 0 THEN a ELSE GCD(b, a % b)

Rat(n, d) ==
    LET s == IF d < 0 THEN 0 - 1 ELSE 1
        g == GCD(Abs(n), Abs(d))
    IN  <<(s * n) \div g, (s * d) \div g>>

FromInt(i) == <<i, 1>>
Zero == <<0, 1>>
One == <<1, 1>>
RAdd(a, b) == Rat(a[1] * b[2] + b[1] * a[2], a[2] * b[2])
RSub(a, b) == Rat(a[1] * b[2] - b[1] * a[2], a[2] * b[2])
RMul(a, b) == Rat(a[1] * b[1], a[2] * b[2])
RDiv(a, b) == Rat(a[1] * b[2], a[2] * b[1])
RLt(a, b) == a[1] * b[2] < b[1] * a[2]
RLe(a, b) == a[1] * b[2] <= b[1] * a[2]

RECURSIVE RSum(_)
RSum(s) == IF s = <<>> THEN Zero ELSE RAdd(Head(s), RSum(Tail(s)))

\* Scalar product of two vectors of rationals of the same length.
Dot(u, v) == RSum(Force([i \in 1..Len(u) |-> RMul(u[i], v[i])]))

SetMin(S) == CHOOSE v \in S : \A w \in S : v <= w

RECURSIVE Flatten(_)
Flatten(ss) == IF ss = <<>> THEN <<>> ELSE Head(ss) \o Flatten(Tail(ss))

(***************************************************************************)
(* LPOps and LPBuilder.                                                    *)
(***************************************************************************)
LPOps == {"Eq", "Gte", "Lte"}

LPBuilder(o, cs, a, p) ==
    [objective |-> o, constraints |-> cs, ans |-> a, ops |-> p]

\* LPBuilder::new
new == LPBuilder(<<>>, <<>>, <<>>, <<>>)

self == LPBuilder(objective, constraints, ans, ops)

\* i64 arithmetic without overflow checks keeps the low IntWidth bits.
Wrap(x) == ((x + 2^(IntWidth - 1)) % 2^IntWidth) - 2^(IntWidth - 1)

\* `x *= -1` on an i64
Negate(x) == Wrap((0 - 1) * x)

FlipOp(op) ==
    CASE op = "Eq" -> "Eq"
      [] op = "Gte" -> "Lte"
      [] op = "Lte" -> "Gte"

\* The row add_constraint stores for its arguments (lines 47-57).
Normalize(constraint, op, a) ==
    IF a < 0
    THEN [constraint |-> Force([i \in 1..Len(constraint) |-> Negate(constraint[i])]),
          op |-> FlipOp(op),
          ans |-> Negate(a)]
    ELSE [constraint |-> constraint, op |-> op, ans |-> a]

\* One of the `*= -1` of lines 48-50 overflows.
NegationOverflows(constraint, a) ==
    a < 0 /\ (a = MinInt \/ \E i \in 1..Len(constraint) : constraint[i] = MinInt)

\* constraint_exists, lines 59-65
ConstraintExists(b, row) ==
    \E ind \in 1..Len(b.constraints) :
        /\ b.constraints[ind] = row.constraint
        /\ b.ops[ind] = row.op
        /\ b.ans[ind] = row.ans

\* add_constraint looking for the row as given, before its sign is normalized
add_constraint_raw_lookup(b, constraint, op, a) ==
    LET row == Normalize(constraint, op, a)
    IN  IF ConstraintExists(b, [constraint |-> constraint, op |-> op, ans |-> a])
        THEN b
        ELSE [b EXCEPT !.constraints = Append(@, row.constraint),
                       !.ans = Append(@, row.ans),
                       !.ops = Append(@, row.op)]

\* LPBuilder::add_constraint as a function of the builder
add_constraint(b, constraint, op, a) ==
    LET row == Normalize(constraint, op, a)
    IN  IF ConstraintExists(b, row)
        THEN b
        ELSE [b EXCEPT !.constraints = Append(@, row.constraint),
                       !.ans = Append(@, row.ans),
                       !.ops = Append(@, row.op)]

(***************************************************************************)
(* LPBuilder::build.                                                       *)
(***************************************************************************)
Panicked == [status |-> "panic"]

\* curr_slack_var advanced for the Lte rows only
SlackBeforeLte(p, i) == Cardinality({k \in 1..(i - 1) : p[k] = "Lte"})

\* Number of Gte / Lte rows before row i: curr_slack_var when row i is reached.
SlackBefore(p, i) == Cardinality({k \in 1..(i - 1) : p[k] \in {"Gte", "Lte"}})

\* build with a slack column counted for the Lte rows only
build_lte_slack_only(b) ==
    LET m == Len(b.constraints)
        num_variables == IF m = 0 THEN 0 ELSE Len(b.constraints[1])
        num_slack_vars == Cardinality({i \in 1..m : b.ops[i] = "Lte"})
        constraints_flat == Flatten(b.constraints)
        ncols == num_variables + num_slack_vars + m
        Entry(i, j) ==
            IF j < num_variables
            THEN constraints_flat[(i - 1) * num_variables + j + 1]
            ELSE IF j < num_variables + num_slack_vars
            THEN IF b.ops[i] # "Eq" /\ SlackBefore(b.ops, i) = j - num_variables
                 THEN (IF b.ops[i] = "Gte" THEN 0 - 1 ELSE 1)
                 ELSE 0
            ELSE IF j - (num_variables + num_slack_vars) = i - 1 THEN 1 ELSE 0
    IN  IF m = 0
        THEN Panicked                 \* self.constraints[0], line 107
        ELSE IF Len(constraints_flat) < m * num_variables
        THEN Panicked                 \* from_row_iterator runs out of elements
        ELSE [status |-> "ok",
              p1_objective |-> Force([j \in 1..ncols |->
                                  IF j <= num_slack_vars + num_variables THEN 0 ELSE 1]),
              c |-> b.objective \o Force([j \in 1..(num_slack_vars + m) |-> 0]),
              b |-> b.ans,
              constraints |-> Force([i \in 1..m |->
                                  Force([j \in 1..ncols |-> Entry(i, j - 1)])]),
              slack_var_start |-> num_variables,
              artificial_var_start |-> num_variables + num_slack_vars]

build(b) ==
    LET m == Len(b.constraints)
        num_variables == IF m = 0 THEN 0 ELSE Len(b.constraints[1])
        num_slack_vars == Cardinality({i \in 1..m : b.ops[i] \in {"Gte", "Lte"}})
        constraints_flat == Flatten(b.constraints)
        ncols == num_variables + num_slack_vars + m
        Entry(i, j) ==
            IF j < num_variables
            THEN constraints_flat[(i - 1) * num_variables + j + 1]
            ELSE IF j < num_variables + num_slack_vars
            THEN IF b.ops[i] # "Eq" /\ SlackBefore(b.ops, i) = j - num_variables
                 THEN (IF b.ops[i] = "Gte" THEN 0 - 1 ELSE 1)
                 ELSE 0
            ELSE IF j - (num_variables + num_slack_vars) = i - 1 THEN 1 ELSE 0
    IN  IF m = 0
        THEN Panicked                 \* self.constraints[0], line 107
        ELSE IF Len(constraints_flat) < m * num_variables
        THEN Panicked                 \* from_row_iterator runs out of elements
        ELSE [status |-> "ok",
              p1_objective |-> Force([j \in 1..ncols |->
                                  IF j <= num_slack_vars + num_variables THEN 0 ELSE 1]),
              c |-> b.objective \o Force([j \in 1..(num_slack_vars + m) |-> 0]),
              b |-> b.ans,
              constraints |-> Force([i \in 1..m |->
                                  Force([j \in 1..ncols |-> Entry(i, j - 1)])]),
              slack_var_start |-> num_variables,
              artificial_var_start |-> num_variables + num_slack_vars]

NoSolver == [status |-> "none"]
NoCall == [name |-> "new"]

(***************************************************************************)
(* The builder driven call by call.                                        *)
(***************************************************************************)
CallObjectives == {<<1>>, <<1, 0 - 1>>}
CallVectors == {<<1>>, <<0 - 1>>, <<1, 2>>}
CallAns == {MinInt, 0 - 2, 0, 2}

\* Option<Solution>::None
None == [some |-> FALSE]

\* f64::MAX, above every value of the model: as a rational, 1/0.
F64Max == <<1, 0>>

NoStep == [kind |-> "none"]
NoResult == [ok |-> FALSE, err |-> "none"]

\* Option<Box<Node<T>>>::None
Nil == [nil |-> TRUE]

\* The utilities are not in use.
IdleUtils ==
    /\ dsu = [parent |-> <<>>, size |-> <<>>, num_sets |-> 0]
    /\ interval_tree = Nil
    /\ intervaltree = Nil
    /\ stack = <<>>
    /\ best = None

IdleRun ==
    /\ queue = <<>>
    /\ best_solution = None
    /\ best_minima = F64Max
    /\ lp = new
    /\ nodes = 0
    /\ stage = 0
    /\ b_columns = <<>>
    /\ n_columns = <<>>
    /\ iterations = 0
    /\ step = NoStep
    /\ solution = NoResult
    /\ IdleUtils

InitBuilder ==
    /\ objective = <<>>
    /\ constraints = <<>>
    /\ ans = <<>>
    /\ ops = <<>>
    /\ call = NoCall
    /\ pc = "builder"
    /\ solver = NoSolver
    /\ IdleRun

\* LPBuilder::add_objective
AddObjective(o) ==
    /\ pc = "builder"
    /\ objective' = o
    /\ call' = [name |-> "add_objective", objective |-> o, before |-> self]
    /\ UNCHANGED <<constraints, ans, ops, pc, solver>>
    /\ UNCHANGED <<bnbVars, simplexVars, solution>>
    /\ UNCHANGED utilVars

\* LPBuilder::add_constraint; with overflow checks off the negations wrap.
AddConstraint(constraint, op, a) ==
    /\ pc = "builder"
    /\ Len(constraints) < MaxCalls
    /\ LET after == add_constraint(self, constraint, op, a)
       IN  /\ constraints' = after.constraints
           /\ ans' = after.ans
           /\ ops' = after.ops
    /\ call' = [name |-> "add_constraint", constraint |-> constraint, op |-> op,
                ans |-> a, before |-> self]
    /\ UNCHANGED <<objective, pc, solver>>
    /\ UNCHANGED <<bnbVars, simplexVars, solution>>
    /\ UNCHANGED utilVars

\* LPBuilder::add_constraint with overflow checks on: `*= -1` panics.
AddConstraintOverflow(constraint, op, a) ==
    /\ pc = "builder"
    /\ Len(constraints) < MaxCalls
    /\ NegationOverflows(constraint, a)
    /\ pc' = "panic"
    /\ call' = [name |-> "add_constraint", constraint |-> constraint, op |-> op,
                ans |-> a, before |-> self]
    /\ UNCHANGED <<builderVars, solver>>
    /\ UNCHANGED <<bnbVars, simplexVars, solution>>
    /\ UNCHANGED utilVars

\* LPBuilder::build
Build ==
    /\ pc = "builder"
    /\ solver' = build(self)
    /\ pc' = IF solver'.status = "panic" THEN "panic" ELSE "built"
    /\ call' = [name |-> "build", before |-> self]
    /\ UNCHANGED builderVars
    /\ UNCHANGED <<bnbVars, simplexVars, solution>>
    /\ UNCHANGED utilVars

NextBuilder ==
    \/ \E o \in CallObjectives : AddObjective(o)
    \/ \E v \in CallVectors, op \in LPOps, a \in CallAns : AddConstraint(v, op, a)
    \/ \E v \in CallVectors, op \in LPOps, a \in CallAns : AddConstraintOverflow(v, op, a)
    \/ Build

SpecBuilder == InitBuilder /\ [][NextBuilder]_vars
(***************************************************************************)
(* Matrices.  A matrix is a sequence of rows.                              *)
(***************************************************************************)
RVec(v) == Force([i \in 1..Len(v) |-> FromInt(v[i])])

\* select_columns on an integer matrix, giving a matrix of rationals
select_columns(A, cols) ==
    Force([i \in 1..Len(A) |-> Force([k \in 1..Len(cols) |-> FromInt(A[i][cols[k] + 1])])])

\* select_rows on a vector
select_rows(v, rows) == Force([k \in 1..Len(rows) |-> FromInt(v[rows[k] + 1])])

\* column j (0-based) of an integer matrix, as rationals
column(A, j) == Force([i \in 1..Len(A) |-> FromInt(A[i][j + 1])])

transpose(M) ==
    IF M = <<>> THEN <<>>
    ELSE Force([j \in 1..Len(M[1]) |-> Force([i \in 1..Len(M) |-> M[i][j]])])

MatVec(M, v) == Force([i \in 1..Len(M) |-> Dot(M[i], v)])

\* The None of try_inverse (a matrix has at least one row).
NoInverse == <<>>

\* Gauss-Jordan elimination of the m x 2m matrix aug from column col on.
RECURSIVE GaussJordan(_, _, _)
GaussJordan(aug, col, m) ==
    IF col > m THEN aug
    ELSE LET cand == {r \in col..m : aug[r][col] # Zero}
         IN  IF cand = {} THEN NoInverse
             ELSE LET p == SetMin(cand)
                      swapped == [aug EXCEPT ![col] = aug[p], ![p] = aug[col]]
                      pv == swapped[col][col]
                      prow == Force([j \in 1..(2 * m) |-> RDiv(swapped[col][j], pv)])
                      elim == Force([r \in 1..m |->
                                 IF r = col THEN prow
                                 ELSE Force([j \in 1..(2 * m) |->
                                         RSub(swapped[r][j], RMul(swapped[r][col], prow[j]))])])
                  IN  GaussJordan(elim, col + 1, m)

\* try_inverse: the inverse of a square matrix of rationals, NoInverse if singular
try_inverse(M) ==
    LET m == Len(M)
        aug == Force([i \in 1..m |-> Force([j \in 1..(2 * m) |->
                   IF j <= m THEN M[i][j] ELSE IF j - m = i THEN One ELSE Zero])])
        r == GaussJordan(aug, 1, m)
    IN  IF r = NoInverse THEN NoInverse
        ELSE Force([i \in 1..m |-> Force([j \in 1..m |-> r[i][j + m]])])

(***************************************************************************)
(* LPSolver::_revised_simplex_method, one iteration of its loop.           *)
(***************************************************************************)
MaxIterations == 10000

\* `v >= zeros`: every component is >= 0
AllNonNegative(v) == \A i \in 1..Len(v) : RLe(Zero, v[i])

\* every component is < 0
AllNegative(v) == \A i \in 1..Len(v) : RLt(v[i], Zero)

\* `v <= zeros`: every component is <= 0
AllNonPositive(v) == \A i \in 1..Len(v) : RLe(v[i], Zero)

\* abs_diff_eq!(v, zeros, epsilon = 1e-15): the values of the model are
\* rationals with small denominators, within 1e-15 of zero only when zero.
AbsDiffEqZero(v) == \A i \in 1..Len(v) : v[i] = Zero

\* argmin: position of the first least component of a non-empty vector
argmin(v) ==
    SetMin({i \in 1..Len(v) : \A k \in 1..Len(v) : RLe(v[i], v[k])})

\* every stage may choose from all the columns, artificial ones included
NonBasicAll(s, bcols, use_artificial_vars) ==
    LET InBasis(x) == \E k \in 1..Len(bcols) : bcols[k] = x
    IN  SelectSeq(Force([j \in 1..Len(s.constraints[1]) |-> j - 1]),
                  LAMBDA x : ~InBasis(x))

\* lines 295-301: the columns the stage may choose from
NonBasic(s, bcols, use_artificial_vars) ==
    LET final_index == IF use_artificial_vars THEN Len(s.constraints[1])
                       ELSE s.artificial_var_start
        InBasis(x) == \E k \in 1..Len(bcols) : bcols[k] = x
    IN  SelectSeq(Force([j \in 1..final_index |-> j - 1]), LAMBDA x : ~InBasis(x))

\* lines 323-328: the full solution vector read off the basis
FullSolution(s, bcols, basis_solution) ==
    LET Last(col) == CHOOSE i \in 1..Len(bcols) :
                        /\ bcols[i] = col
                        /\ \A k \in 1..Len(bcols) : bcols[k] = col => k <= i
    IN  Force([j \in 1..Len(s.constraints[1]) |->
            IF \E i \in 1..Len(bcols) : bcols[i] = j - 1
            THEN basis_solution[Last(j - 1)]
            ELSE Zero])

\* the ratio test keeping the rows whose ratio x / d is positive
LeavingRowPositiveRatio(x, d) ==
    LET rows == {i \in 1..Len(d) : RLt(Zero, d[i]) /\ RLt(Zero, x[i])}
        Ratio(i) == RDiv(x[i], d[i])
        least == {i \in rows : \A k \in rows : RLe(Ratio(i), Ratio(k))}
    IN  IF rows = {} THEN 0 ELSE SetMin(least)

\* the last row of the least ratio leaves on ties
LeavingRowLast(x, d) ==
    LET rows == {i \in 1..Len(d) : RLt(Zero, d[i])}
        Ratio(i) == RDiv(x[i], d[i])
        least == {i \in rows : \A k \in rows : RLe(Ratio(i), Ratio(k))}
    IN  IF rows = {} THEN 0 ELSE CHOOSE i \in least : \A k \in least : k <= i

\* no ratio test: the first row leaves, whatever its coefficient
LeavingRowFirst(x, d) == 1

\* lines 338-347: the row of the least ratio x / d over the rows with d > 0,
\* the first such row on ties; 0 when no row has d > 0 (unwrap of None).
LeavingRow(x, d) ==
    LET rows == {i \in 1..Len(d) : RLt(Zero, d[i])}
        Ratio(i) == RDiv(x[i], d[i])
        least == {i \in rows : \A k \in rows : RLe(Ratio(i), Ratio(k))}
    IN  IF rows = {} THEN 0 ELSE SetMin(least)

\* What one pass through the loop body (lines 304-360) does.
Iteration(s, objective_function, bcols, ncols, iters) ==
    LET basic_vars_matrix == select_columns(s.constraints, bcols)
        basis_matrix_inv == try_inverse(basic_vars_matrix)
        InRange(cols) == \A k \in 1..Len(cols) : cols[k] < Len(objective_function)
    IN  IF basis_matrix_inv = NoInverse \/ ~InRange(ncols) \/ ~InRange(bcols)
        THEN [kind |-> "panic", line |-> 306]  \* unwrap of None, or select_rows out of range
        ELSE
        LET non_basic_coeffs == select_rows(objective_function, ncols)
            basic_var_coeffs == select_rows(objective_function, bcols)
            simplex_multipliers ==
                MatVec(try_inverse(transpose(basic_vars_matrix)), basic_var_coeffs)
            reduced_costs ==
                Force([k \in 1..Len(ncols) |->
                    RSub(non_basic_coeffs[k],
                         Dot(column(s.constraints, ncols[k]), simplex_multipliers))])
            basis_solution == MatVec(basis_matrix_inv, RVec(s.b))
        IN  IF AllNonNegative(reduced_costs) \/ AbsDiffEqZero(reduced_costs)
            THEN [kind |-> "optimal",
                  solution |-> FullSolution(s, bcols, basis_solution),
                  basis |-> bcols]
            ELSE
            LET arg == argmin(reduced_costs)
                entering_index == ncols[arg]
                pivot_column_vector ==
                    MatVec(basis_matrix_inv, column(s.constraints, entering_index))
            IN  IF AllNonPositive(pivot_column_vector)
                THEN [kind |-> "UnboundedProblem",
                      entering_index |-> entering_index,
                      pivot_column_vector |-> pivot_column_vector,
                      basis |-> bcols]
                ELSE
                LET leaving_col == LeavingRow(basis_solution, pivot_column_vector)
                IN  IF leaving_col = 0
                    THEN [kind |-> "panic", line |-> 346,      \* unwrap of None
                          entering_index |-> entering_index,
                          pivot_column_vector |-> pivot_column_vector,
                          basis |-> bcols]
                    ELSE
                    LET b1 == [bcols EXCEPT ![leaving_col] = entering_index]
                        n1 == [ncols EXCEPT ![arg] = b1[leaving_col]]
                    IN  [kind |-> IF iters + 1 = MaxIterations
                                  THEN "MaxIterationsReached" ELSE "pivot",
                         entering_index |-> entering_index,
                         pivot_column_vector |-> pivot_column_vector,
                         leaving_col |-> leaving_col,
                         basis |-> bcols,
                         b_columns |-> b1,
                         n_columns |-> n1]
(***************************************************************************)
(* Solution.                                                               *)
(***************************************************************************)
Ok(minima, sol, basis) ==
    [ok |-> TRUE, minima |-> minima, solution |-> sol, basis |-> basis]
Err(e) == [ok |-> FALSE, err |-> e]
Some(sol) == [some |-> TRUE, minima |-> sol.minima, solution |-> sol.solution,
              basis |-> sol.basis]

IsInteger(v) == v[2] = 1
Floor(v) == v[1] \div v[2]
Ceil(v) == 0 - ((0 - v[1]) \div v[2])

\* Solution::is_integer_solution
\* only the first variable is looked at
is_integer_solution_first(sol) == sol.solution = <<>> \/ IsInteger(sol.solution[1])

is_integer_solution(sol) == \A i \in 1..Len(sol.solution) : IsInteger(sol.solution[i])

\* Solution::get_fractional_constraints: the keys of the map (0-based)
FractionalVariables(sol) == {i - 1 : i \in {k \in 1..Len(sol.solution) : ~IsInteger(sol.solution[k])}}

(***************************************************************************)
(* The systems handed to branch_and_bound.                                 *)
(***************************************************************************)
Objectives == {<<0 - 1>>, <<1>>, <<0 - 1, 0 - 1>>, <<1, 0 - 1>>}
Vectors == {<<0 - 1>>, <<2>>, <<1, 1>>, <<1, 0 - 1>>}
Rhs == {0, 3}

Rows(n) == {r \in [constraint : Vectors, op : LPOps, ans : Rhs] : Len(r.constraint) = n}
RowSeqs(n) == UNION {[1..k -> Rows(n)] : k \in 0..MaxRows}

RECURSIVE AddAll(_, _)
AddAll(b, rows) ==
    IF rows = <<>> THEN b
    ELSE AddAll(add_constraint(b, Head(rows).constraint, Head(rows).op, Head(rows).ans),
                Tail(rows))

\* tests::lp_builder
TestSolve ==
    AddAll(LPBuilder(<<0 - 2, 0 - 3, 0 - 4>>, <<>>, <<>>, <<>>),
           <<[constraint |-> <<3, 2, 1>>, op |-> "Lte", ans |-> 10],
             [constraint |-> <<2, 5, 3>>, op |-> "Lte", ans |-> 15]>>)

\* tests::test_branch_and_bound
TestBranchAndBound ==
    AddAll(LPBuilder(<<0, 0 - 1>>, <<>>, <<>>, <<>>),
           <<[constraint |-> <<0 - 1, 1>>, op |-> "Lte", ans |-> 1],
             [constraint |-> <<3, 2>>, op |-> "Lte", ans |-> 12],
             [constraint |-> <<2, 3>>, op |-> "Lte", ans |-> 12]>>)

\* x >= 10 and x <= 5 on a single variable
InfeasibleSystem ==
    AddAll(LPBuilder(<<1>>, <<>>, <<>>, <<>>),
           <<[constraint |-> <<1>>, op |-> "Gte", ans |-> 10],
             [constraint |-> <<1>>, op |-> "Lte", ans |-> 5]>>)

\* Three variables, two rows: in Phase 2 both columns of the starting basis
\* leave it again.
LostColumn ==
    AddAll(LPBuilder(<<3, 0 - 3, 0 - 1>>, <<>>, <<>>, <<>>),
           <<[constraint |-> <<1, 0 - 3, 1>>, op |-> "Lte", ans |-> 3],
             [constraint |-> <<1, 1, 0 - 3>>, op |-> "Gte", ans |-> 2]>>)

\* One variable: the root relaxation is x = 1/3, and the child with x >= 1
\* is solved to x = 1/3 again.
DuplicateChild ==
    AddAll(LPBuilder(<<3>>, <<>>, <<>>, <<>>),
           <<[constraint |-> <<3>>, op |-> "Gte", ans |-> 1],
             [constraint |-> <<2>>, op |-> "Lte", ans |-> 2]>>)

\* Two variables on the line 2x - 2y = 1: the relaxation is feasible along
\* the direction (1, 1) and no integer point satisfies the row.
NoIntegerPoint ==
    AddAll(LPBuilder(<<1, 1>>, <<>>, <<>>, <<>>),
           <<[constraint |-> <<2, 0 - 2>>, op |-> "Eq", ans |-> 1]>>)

Systems ==
    {AddAll(LPBuilder(o, <<>>, <<>>, <<>>), rows) :
        o \in Objectives, rows \in UNION {RowSeqs(n) : n \in 1..2}}
    \cup {TestSolve, TestBranchAndBound, InfeasibleSystem, LostColumn, DuplicateChild,
          NoIntegerPoint}

(***************************************************************************)
(* branch_and_bound, solve and the simplex loop, step by step.             *)
(***************************************************************************)
Init ==
    /\ \E b \in {x \in Systems : \A i \in 1..Len(x.constraints) :
                    Len(x.constraints[i]) = Len(x.objective)} :
        /\ objective = b.objective
        /\ constraints = b.constraints
        /\ ans = b.ans
        /\ ops = b.ops
        /\ queue = <<b>>
    /\ call = [name |-> "branch_and_bound"]
    /\ pc = "loop"
    /\ solver = NoSolver
    /\ best_solution = None
    /\ best_minima = F64Max
    /\ lp = new
    /\ nodes = 0
    /\ stage = 0
    /\ b_columns = <<>>
    /\ n_columns = <<>>
    /\ iterations = 0
    /\ step = NoStep
    /\ solution = NoResult
    /\ IdleUtils

\* lines 370-372 and 276, 263, 295-302: pop a node, build it, enter Phase 1
PopNode ==
    /\ pc = "loop"
    /\ queue # <<>>
    /\ nodes < MaxNodes
    /\ lp' = Head(queue)
    /\ queue' = Tail(queue)
    /\ nodes' = nodes + 1
    /\ solver' = build(lp')
    /\ IF solver'.status = "panic"
       THEN /\ pc' = "panic"
            /\ UNCHANGED simplexVars
       ELSE /\ pc' = "simplex"
            /\ stage' = 1
            /\ b_columns' = Force([k \in 1..Len(solver'.constraints) |->
                                solver'.artificial_var_start + k - 1])
            /\ n_columns' = NonBasic(solver', b_columns', TRUE)
            /\ iterations' = 0
            /\ step' = NoStep
    /\ solution' = NoResult
    /\ UNCHANGED <<builderVars, call, best_solution, best_minima>>
    /\ UNCHANGED utilVars

\* lines 303-361: one iteration of the loop of _revised_simplex_method
SimplexIteration ==
    /\ pc = "simplex"
    /\ \E it \in {Iteration(solver, IF stage = 1 THEN solver.p1_objective ELSE solver.c,
                              b_columns, n_columns, iterations)} :
           /\ step' = it
           /\ CASE it.kind = "panic" ->
                     /\ pc' = "panic"
                     /\ UNCHANGED <<b_columns, n_columns, iterations, solution>>
                [] it.kind = "optimal" ->
                     /\ pc' = "returned"
                     /\ UNCHANGED <<b_columns, n_columns, iterations, solution>>
                [] it.kind = "UnboundedProblem" ->
                     /\ pc' = "solved"
                     /\ solution' = Err("UnboundedProblem")
                     /\ UNCHANGED <<b_columns, n_columns, iterations>>
                [] it.kind = "MaxIterationsReached" ->
                     /\ pc' = "solved"
                     /\ solution' = Err("MaxIterationsReached")
                     /\ b_columns' = it.b_columns
                     /\ n_columns' = it.n_columns
                     /\ iterations' = iterations + 1
                [] it.kind = "pivot" ->
                     /\ pc' = "simplex"
                     /\ b_columns' = it.b_columns
                     /\ n_columns' = it.n_columns
                     /\ iterations' = iterations + 1
                     /\ UNCHANGED solution
    /\ UNCHANGED <<builderVars, call, solver, bnbVars, stage>>
    /\ UNCHANGED utilVars

\* c^T * solution over the columns of the objective
ObjectiveSum(s, sol) == Dot(RVec(s.c), SubSeq(sol, 1, Len(s.c)))

\* line 268: p1_objective^T * solution
ArtificialSum(s, sol) == Dot(RVec(s.p1_objective), sol)

\* lines 265-272 and 276-280, 295-302: Phase 1 has returned Ok
Phase1Return ==
    /\ pc = "returned"
    /\ stage = 1
    /\ IF ArtificialSum(solver, step.solution) # Zero
       THEN /\ pc' = "solved"
            /\ solution' = Err("NoSolution")
            /\ UNCHANGED <<stage, b_columns, n_columns, iterations>>
       ELSE /\ pc' = "simplex"
            /\ stage' = 2
            /\ b_columns' = step.basis
            /\ n_columns' = NonBasic(solver, step.basis, FALSE)
            /\ iterations' = 0
            /\ UNCHANGED solution
    /\ step' = [kind |-> "phase1", sum |-> ArtificialSum(solver, step.solution)]
    /\ UNCHANGED <<builderVars, call, solver, bnbVars>>
    /\ UNCHANGED utilVars

\* lines 279-286: Phase 2 has returned Ok
Phase2Return ==
    /\ pc = "returned"
    /\ stage = 2
    /\ IF Len(solver.c) # Len(step.solution)
       THEN /\ pc' = "panic"         \* c^T * solution: dimensions mismatch
            /\ UNCHANGED solution
       ELSE /\ pc' = "solved"
            /\ solution' = Ok(Dot(RVec(solver.c), step.solution),
                              SubSeq(step.solution, 1, solver.slack_var_start),
                              step.basis)
    /\ UNCHANGED <<builderVars, call, solver, bnbVars, simplexVars>>
    /\ UNCHANGED utilVars

\* The orders in which the HashMap of fractional variables may be iterated.
Orders(S) == {o \in [1..Cardinality(S) -> S] : \A i, j \in 1..Cardinality(S) : o[i] = o[j] => i = j}

\* the bound is written over the last row of the node instead of a clone
\* being extended
BranchesInPlace(node, sol, variable) ==
    LET constraint_eq == Force([j \in 1..Len(sol.solution) |-> IF j = variable + 1 THEN 1 ELSE 0])
        value == sol.solution[variable + 1]
        m == Len(node.constraints)
        Over(op, a) == LPBuilder(node.objective,
                                 [node.constraints EXCEPT ![m] = constraint_eq],
                                 [node.ans EXCEPT ![m] = a],
                                 [node.ops EXCEPT ![m] = op])
        branched_problem_upper == Over("Gte", Ceil(value))
        branched_problem_lower == Over("Lte", Floor(value))
    IN  (IF branched_problem_upper # node THEN <<branched_problem_upper>> ELSE <<>>)
        \o (IF branched_problem_lower # node THEN <<branched_problem_lower>> ELSE <<>>)

\* lines 388-411: the sub-problems pushed for one fractional variable
Branches(node, sol, variable) ==
    LET constraint_eq == Force([j \in 1..Len(sol.solution) |-> IF j = variable + 1 THEN 1 ELSE 0])
        value == sol.solution[variable + 1]
        branched_problem_upper == add_constraint(node, constraint_eq, "Gte", Ceil(value))
        branched_problem_lower == add_constraint(node, constraint_eq, "Lte", Floor(value))
    IN  (IF branched_problem_upper # node THEN <<branched_problem_upper>> ELSE <<>>)
        \o (IF branched_problem_lower # node THEN <<branched_problem_lower>> ELSE <<>>)

RECURSIVE Children(_, _, _)
Children(node, sol, order) ==
    IF order = <<>> THEN <<>>
    ELSE Branches(node, sol, Head(order)) \o Children(node, sol, Tail(order))

\* lines 373-415: the match on the result of solve
Match ==
    /\ pc = "solved"
    /\ pc' = "loop"
    /\ IF ~solution.ok
       THEN UNCHANGED <<queue, best_solution, best_minima>>
       ELSE IF RLe(best_minima, solution.minima)
       THEN UNCHANGED <<queue, best_solution, best_minima>>
       ELSE IF is_integer_solution(solution)
       THEN /\ best_minima' = solution.minima
            /\ best_solution' = Some(solution)
            /\ UNCHANGED queue
       ELSE /\ \E order \in Orders(FractionalVariables(solution)) :
                queue' = queue \o Children(lp, solution, order)
            /\ UNCHANGED <<best_solution, best_minima>>
    /\ step' = NoStep               \* the result of solve is dropped
    /\ solution' = NoResult
    /\ UNCHANGED <<builderVars, call, solver, lp, nodes, stage, b_columns,
                   n_columns, iterations>>
    /\ UNCHANGED utilVars

\* line 417: the queue is empty
Return ==
    /\ pc = "loop"
    /\ queue = <<>>
    /\ pc' = "done"
    /\ UNCHANGED <<builderVars, call, solver, bnbVars, simplexVars, solution>>
    /\ UNCHANGED utilVars

Next ==
    \/ PopNode
    \/ SimplexIteration
    \/ Phase1Return
    \/ Phase2Return
    \/ Match
    \/ Return

Spec == Init /\ [][Next]_vars
(***************************************************************************)
(* Properties of the builder.                                              *)
(***************************************************************************)
IsAddConstraint == call.name = "add_constraint"

\* The row the last add_constraint call has to store: for a negative
\* right-hand side the negated row with the operator flipped.
Expected ==
    IF call.ans < 0
    THEN [constraint |-> Force([i \in 1..Len(call.constraint) |-> 0 - call.constraint[i]]),
          op |-> (IF call.op = "Eq" THEN "Eq" ELSE IF call.op = "Lte" THEN "Gte" ELSE "Lte"),
          ans |-> 0 - call.ans]
    ELSE [constraint |-> call.constraint, op |-> call.op, ans |-> call.ans]

Stored(b, row) ==
    \E i \in 1..Len(b.constraints) :
        b.constraints[i] = row.constraint /\ b.ops[i] = row.op /\ b.ans[i] = row.ans

\* C7: every stored right-hand side is >= 0, and the last add_constraint
\* call has stored its row: negated with the operator flipped when the
\* right-hand side given was negative, unchanged otherwise.
C7_RhsNonNegative ==
    /\ \A i \in 1..Len(ans) : ans[i] >= 0
    /\ IsAddConstraint => Stored(self, Expected)

\* C8: no two stored rows are the same triple, the three lists have the
\* same length, and an add_constraint call whose normalized row was already
\* stored has left the builder as it was.
C8_DuplicateSuppression ==
    /\ \A i, j \in 1..Len(constraints) :
          (constraints[i] = constraints[j] /\ ops[i] = ops[j] /\ ans[i] = ans[j]) => i = j
    /\ Len(constraints) = Len(ops) /\ Len(ops) = Len(ans)
    /\ (IsAddConstraint /\ Stored(call.before, Expected)) => self = call.before

\* An add_constraint call has repeated a stored row, given with the opposite sign.
C8_Witness ==
    /\ IsAddConstraint
    /\ pc = "builder"
    /\ call.ans < 0
    /\ Stored(call.before, Expected)
    /\ self = call.before

RowMismatch(b) == \E i \in 1..Len(b.constraints) : Len(b.constraints[i]) # Len(b.objective)

\* C9: build() returns a construction error when some row's length differs
\* from the objective's, and succeeds only when every row has that length.
C9_DimensionCheck ==
    call.name = "build" =>
        /\ RowMismatch(call.before) => solver.status = "error"
        /\ solver.status = "ok" => ~RowMismatch(call.before)

\* C10: build(), solve() and branch_and_bound never panic.
C10_NoPanic ==
    ~(pc = "panic" /\ call.name \in {"build", "solve", "branch_and_bound"})
(***************************************************************************)
(* What a constraint system means, independently of the solver.            *)
(***************************************************************************)
NumVariables(b) == Len(b.objective)

Holds(row, op, rhs, x) ==
    LET v == Dot(RVec(row), x)
    IN  CASE op = "Eq" -> v = FromInt(rhs)
          [] op = "Lte" -> RLe(v, FromInt(rhs))
          [] op = "Gte" -> RLe(FromInt(rhs), v)

\* x satisfies every constraint of b
Satisfies(b, x) ==
    \A i \in 1..Len(b.constraints) : Holds(b.constraints[i], b.ops[i], b.ans[i], x)

NonNegative(x) == \A i \in 1..Len(x) : RLe(Zero, x[i])

\* The non-negative integer points of b with coordinates up to LatticeMax.
IntegerPoints(b) ==
    {x \in [1..NumVariables(b) -> 0..LatticeMax] : Satisfies(b, RVec(x))}

ObjectiveAt(b, x) == Dot(RVec(b.objective), x)

RECURSIVE SetToSeq(_)
SetToSeq(S) == IF S = {} THEN <<>> ELSE <<SetMin(S)>> \o SetToSeq(S \ {SetMin(S)})

MaxAbs(S) == IF S = {} THEN 0 ELSE CHOOSE v \in S : \A w \in S : w <= v

\* The hyperplanes bounding the region of b: its rows, then the axes x_j = 0.
Plane(b, k) ==
    LET m == Len(b.constraints)
    IN  IF k <= m
        THEN [row |-> b.constraints[k], rhs |-> b.ans[k]]
        ELSE [row |-> Force([j \in 1..NumVariables(b) |-> IF j = k - m THEN 1 ELSE 0]),
              rhs |-> 0]

\* The points where as many independent hyperplanes meet as there are variables.
Crossings(b) ==
    LET n == NumVariables(b)
        picks == {S \in SUBSET (1..(Len(b.constraints) + n)) : Cardinality(S) = n}
        Matrix(S) == Force([i \in 1..n |-> RVec(Plane(b, SetToSeq(S)[i]).row)])
        Rhs0(S) == Force([i \in 1..n |-> FromInt(Plane(b, SetToSeq(S)[i]).rhs)])
    IN  {MatVec(try_inverse(Matrix(S)), Rhs0(S)) :
            S \in {T \in picks : try_inverse(Matrix(T)) # NoInverse}}

\* The vertices of the region {x >= 0 : x satisfies b}; the region is
\* non-empty exactly when it has a vertex, and a bounded objective attains
\* its minimum at one.
Vertices(b) == {x \in Crossings(b) : NonNegative(x) /\ Satisfies(b, x)}

Feasible(b) == Vertices(b) # {}

\* The directions d >= 0 along which the region of b can be left unbounded,
\* among the integer vectors no longer than the largest coefficient.
Recession(b) ==
    LET n == NumVariables(b)
        coefs == {Abs(b.constraints[i][j]) : i \in 1..Len(b.constraints), j \in 1..n}
    IN  {d \in [1..n -> 0..MaxAbs(coefs \cup {1})] :
            /\ \E j \in 1..n : d[j] # 0
            /\ \A i \in 1..Len(b.constraints) :
                  Holds(b.constraints[i], b.ops[i], 0, RVec(d))}

RegionBounded(b) == Recession(b) = {}

ObjectiveBounded(b) == \A d \in Recession(b) : RLe(Zero, ObjectiveAt(b, RVec(d)))

(***************************************************************************)
(* Properties of branch_and_bound and solve.                               *)
(***************************************************************************)
Returned == pc = "done"

\* C1: the assignment branch_and_bound returns is integer, non-negative and
\* satisfies every constraint of the system it was called with.
C1_FeasibilitySoundness ==
    (Returned /\ best_solution.some) =>
        /\ \A i \in 1..Len(best_solution.solution) :
              IsInteger(best_solution.solution[i]) /\ RLe(Zero, best_solution.solution[i])
        /\ Satisfies(self, best_solution.solution)

\* C2: on a system whose region is bounded, the value branch_and_bound
\* returns is the least objective over the non-negative integer points of
\* the system; on tests::test_branch_and_bound it is -2 with x1 = 2.
C2_OptimalityAgainstBruteForce ==
    /\ (Returned /\ RegionBounded(self)) =>
          IF IntegerPoints(self) = {}
          THEN ~best_solution.some
          ELSE /\ best_solution.some
               /\ \A x \in IntegerPoints(self) :
                     RLe(best_solution.minima, ObjectiveAt(self, RVec(x)))
               /\ \E x \in IntegerPoints(self) :
                     best_solution.minima = ObjectiveAt(self, RVec(x))
    /\ (Returned /\ self = TestBranchAndBound) =>
          /\ best_solution.some
          /\ best_solution.minima = FromInt(0 - 2)
          /\ best_solution.solution[2] = FromInt(2)

\* C3: branch_and_bound returns None only for a system without a
\* non-negative integer point.
C3_NoneOnlyWhenInfeasible ==
    (Returned /\ IntegerPoints(self) # {}) => best_solution.some

Solved == pc = "solved"

\* C4: on a system that is feasible and whose objective is bounded, solve()
\* returns Ok with a value no greater than the objective at any feasible
\* point; on tests::lp_builder it returns -20 at [0, 0, 5].
C4_SolveOptimal ==
    /\ (Solved /\ Feasible(lp) /\ ObjectiveBounded(lp)) =>
          /\ solution.ok
          /\ \A v \in Vertices(lp) : RLe(solution.minima, ObjectiveAt(lp, v))
    /\ (Solved /\ lp = TestSolve) =>
          /\ solution.ok
          /\ solution.minima = FromInt(0 - 20)
          /\ solution.solution = <<Zero, Zero, FromInt(5)>>

\* C5: solve() returns NoSolution exactly when Phase 1 ends with a non-zero
\* sum of the artificial variables, and that exactly when no x >= 0
\* satisfies every constraint.
C5_InfeasibilityDetection ==
    /\ Solved => (solution = Err("NoSolution") <=> ~Feasible(lp))
    /\ (Solved /\ solution = Err("NoSolution")) =>
          (step.kind = "phase1" /\ step.sum # Zero)
    /\ step.kind = "phase1" =>
          /\ step.sum # Zero <=> ~Feasible(lp)
          /\ step.sum # Zero <=> (Solved /\ solution = Err("NoSolution"))

\* x >= 10 and x <= 5 is reported infeasible.
C5_Witness ==
    /\ Solved
    /\ lp = InfeasibleSystem
    /\ solution = Err("NoSolution")
    /\ ~Feasible(lp)

HasEntering ==
    \/ step.kind \in {"UnboundedProblem", "pivot", "MaxIterationsReached"}
    \/ (step.kind = "panic" /\ step.line = 346)

NoPositiveCoefficient ==
    ~\E i \in 1..Len(step.pivot_column_vector) : RLt(Zero, step.pivot_column_vector[i])

\* C6: when the entering column has no strictly positive coefficient in any
\* row, the loop stops with UnboundedProblem and the basis is not changed;
\* when some row has one, a leaving row with a positive coefficient is
\* selected, the pivot is made and UnboundedProblem is not raised.  An
\* iteration that has chosen an entering column ends in one of the two ways.
C6_UnboundedDetection ==
    /\ HasEntering =>
          /\ NoPositiveCoefficient =>
                /\ step.kind = "UnboundedProblem"
                /\ Solved /\ solution = Err("UnboundedProblem")
                /\ b_columns = step.basis
          /\ ~NoPositiveCoefficient =>
                /\ step.kind # "UnboundedProblem"
                /\ solution # Err("UnboundedProblem")
                /\ RLt(Zero, step.pivot_column_vector[step.leaving_col])
                /\ b_columns = [step.basis EXCEPT ![step.leaving_col] = step.entering_index]
    /\ HasEntering => step.kind # "panic"

\* UnboundedProblem has been raised on a column whose coefficients are all
\* zero or negative, in Phase 2.
C6_Witness ==
    /\ step.kind = "UnboundedProblem"
    /\ stage = 2
    /\ NoPositiveCoefficient
    /\ \E i \in 1..Len(step.pivot_column_vector) : step.pivot_column_vector[i] = Zero
    /\ solution = Err("UnboundedProblem")

(***************************************************************************)
(* Properties of the simplex loop.                                         *)
(***************************************************************************)
InLoop == pc = "simplex"

\* The ways a run of the loop of _revised_simplex_method ends.
LoopOutcomes == {"optimal", "UnboundedProblem", "MaxIterationsReached"}

TwoFractional ==
    AddAll(LPBuilder(<<0 - 1, 0>>, <<>>, <<>>, <<>>),
           <<[constraint |-> <<2, 1>>, op |-> "Lte", ans |-> 3],
             [constraint |-> <<2, 0 - 1>>, op |-> "Lte", ans |-> 2]>>)

InitTwice ==
    /\ \E b \in {x \in Systems \cup {TwoFractional} :
                    \A i \in 1..Len(x.constraints) :
                        Len(x.constraints[i]) = Len(x.objective)} :
        /\ objective = b.objective
        /\ constraints = b.constraints
        /\ ans = b.ans
        /\ ops = b.ops
        /\ queue = <<b>>
    /\ call = [name |-> "branch_and_bound", run |-> 1, first |-> None]
    /\ pc = "loop"
    /\ solver = NoSolver
    /\ best_solution = None
    /\ best_minima = F64Max
    /\ lp = new
    /\ nodes = 0
    /\ stage = 0
    /\ b_columns = <<>>
    /\ n_columns = <<>>
    /\ iterations = 0
    /\ step = NoStep
    /\ solution = NoResult
    /\ IdleUtils

\* The first call has returned: branch_and_bound is called again on the
\* same builder (lines 366-369), the first result kept for comparison.
Again ==
    /\ pc = "done"
    /\ call.run = 1
    /\ call' = [name |-> "branch_and_bound", run |-> 2, first |-> best_solution]
    /\ pc' = "loop"
    /\ queue' = <<self>>
    /\ solver' = NoSolver
    /\ best_solution' = None
    /\ best_minima' = F64Max
    /\ lp' = new
    /\ nodes' = 0
    /\ stage' = 0
    /\ b_columns' = <<>>
    /\ n_columns' = <<>>
    /\ iterations' = 0
    /\ step' = NoStep
    /\ solution' = NoResult
    /\ UNCHANGED builderVars
    /\ UNCHANGED utilVars

NextTwice ==
    \/ Next
    \/ Again

SpecTwice == InitTwice /\ [][NextTwice]_vars

\* C12: the second call of branch_and_bound on the same system returns what
\* the first call returned: None both times, or the same objective value
\* and the same solution vector.
C12_Determinism ==
    (Returned /\ call.run = 2) =>
        /\ best_solution.some = call.first.some
        /\ best_solution.some =>
              /\ best_solution.minima = call.first.minima
              /\ best_solution.solution = call.first.solution

(***************************************************************************)
(* disjointset.rs: DisjointSet.  Elements are numbered from 0, element i   *)
(* is entry i + 1 of parent and of size.                                   *)
(***************************************************************************)
MaxElements == 4    \* elements a DisjointSet may hold

\* DisjointSet::new
DisjointSet_new(n) ==
    [parent |-> Force([k \in 1..n |-> k - 1]),
     size |-> Force([k \in 1..n |-> 1]),
     num_sets |-> n]

\* DisjointSet::push: the set after the call and the index returned
push(d) ==
    [dsu |-> [parent |-> Append(d.parent, Len(d.parent)),
              size |-> Append(d.size, 1),
              num_sets |-> d.num_sets + 1],
     result |-> Len(d.parent)]

\* lines 33-36: follow parent from root until an element is its own parent
RECURSIVE FindRoot(_, _)
FindRoot(parent, root) ==
    IF parent[root + 1] # root THEN FindRoot(parent, parent[root + 1]) ELSE root

\* lines 39-44: path compression from curr on
RECURSIVE Compress(_, _, _)
Compress(parent, curr, root) ==
    IF parent[curr + 1] # root
    THEN Compress([parent EXCEPT ![curr + 1] = root], parent[curr + 1], root)
    ELSE parent

\* DisjointSet::find: the set after the call and the root returned
find(d, i) ==
    LET root == FindRoot(d.parent, i)
    IN  [dsu |-> [d EXCEPT !.parent = Compress(d.parent, i, root)], result |-> root]

\* DisjointSet::union without the count of sets kept
union_uncounted(d, i, j) ==
    LET fi == find(d, i)
        fj == find(fi.dsu, j)
        root_i == fi.result
        root_j == fj.result
        e == fj.dsu
    IN  IF root_i # root_j
        THEN IF e.size[root_i + 1] < e.size[root_j + 1]
             THEN [dsu |-> [e EXCEPT !.parent[root_i + 1] = root_j,
                                     !.size[root_j + 1] = @ + e.size[root_i + 1]],
                   result |-> TRUE]
             ELSE [dsu |-> [e EXCEPT !.parent[root_j + 1] = root_i,
                                     !.size[root_i + 1] = @ + e.size[root_j + 1]],
                   result |-> TRUE]
        ELSE [dsu |-> e, result |-> FALSE]

\* DisjointSet::union: the set after the call and the value returned
union(d, i, j) ==
    LET fi == find(d, i)
        fj == find(fi.dsu, j)
        root_i == fi.result
        root_j == fj.result
        e == fj.dsu
    IN  IF root_i # root_j
        THEN IF e.size[root_i + 1] < e.size[root_j + 1]
             THEN [dsu |-> [e EXCEPT !.parent[root_i + 1] = root_j,
                                     !.size[root_j + 1] = @ + e.size[root_i + 1],
                                     !.num_sets = @ - 1],
                   result |-> TRUE]
             ELSE [dsu |-> [e EXCEPT !.parent[root_j + 1] = root_i,
                                     !.size[root_i + 1] = @ + e.size[root_j + 1],
                                     !.num_sets = @ - 1],
                   result |-> TRUE]
        ELSE [dsu |-> e, result |-> FALSE]

\* DisjointSet::size_of
size_of(d, i) ==
    LET f == find(d, i)
    IN  [dsu |-> f.dsu, result |-> f.dsu.size[f.result + 1]]

\* An index the vectors do not have: indexing panics.
OutOfBounds(d, i) == i >= Len(d.parent)

\* Everything but the DisjointSet stays as it is.
DsuFrame ==
    UNCHANGED <<builderVars, solver, bnbVars, simplexVars, solution,
                interval_tree, intervaltree, stack, best>>

InitDisjointSet ==
    /\ \E n \in 0..MaxElements : dsu = DisjointSet_new(n)
    /\ interval_tree = Nil
    /\ intervaltree = Nil
    /\ stack = <<>>
    /\ best = None
    /\ objective = <<>>
    /\ constraints = <<>>
    /\ ans = <<>>
    /\ ops = <<>>
    /\ call = NoCall
    /\ pc = "dsu"
    /\ solver = NoSolver
    /\ queue = <<>>
    /\ best_solution = None
    /\ best_minima = F64Max
    /\ lp = new
    /\ nodes = 0
    /\ stage = 0
    /\ b_columns = <<>>
    /\ n_columns = <<>>
    /\ iterations = 0
    /\ step = NoStep
    /\ solution = NoResult

Push ==
    /\ pc = "dsu"
    /\ Len(dsu.parent) < MaxElements
    /\ dsu' = push(dsu).dsu
    /\ call' = [name |-> "push", result |-> push(dsu).result, before |-> dsu]
    /\ UNCHANGED pc
    /\ DsuFrame

Find(i) ==
    /\ pc = "dsu"
    /\ IF OutOfBounds(dsu, i)
       THEN /\ pc' = "panic"
            /\ call' = [name |-> "find", i |-> i, before |-> dsu]
            /\ UNCHANGED dsu
       ELSE /\ dsu' = find(dsu, i).dsu
            /\ call' = [name |-> "find", i |-> i, result |-> find(dsu, i).result,
                        before |-> dsu]
            /\ UNCHANGED pc
    /\ DsuFrame

SizeOf(i) ==
    /\ pc = "dsu"
    /\ IF OutOfBounds(dsu, i)
       THEN /\ pc' = "panic"
            /\ call' = [name |-> "size_of", i |-> i, before |-> dsu]
            /\ UNCHANGED dsu
       ELSE /\ dsu' = size_of(dsu, i).dsu
            /\ call' = [name |-> "size_of", i |-> i, result |-> size_of(dsu, i).result,
                        before |-> dsu]
            /\ UNCHANGED pc
    /\ DsuFrame

Union(i, j) ==
    /\ pc = "dsu"
    /\ IF OutOfBounds(dsu, i) \/ OutOfBounds(dsu, j)
       THEN /\ pc' = "panic"
            /\ call' = [name |-> "union", i |-> i, j |-> j, before |-> dsu]
            /\ UNCHANGED dsu
       ELSE /\ dsu' = union(dsu, i, j).dsu
            /\ call' = [name |-> "union", i |-> i, j |-> j,
                        result |-> union(dsu, i, j).result, before |-> dsu]
            /\ UNCHANGED pc
    /\ DsuFrame

NextDisjointSet ==
    \/ Push
    \/ \E i \in 0..(MaxElements - 1) : Find(i)
    \/ \E i \in 0..(MaxElements - 1) : SizeOf(i)
    \/ \E i, j \in 0..(MaxElements - 1) : Union(i, j)

SpecDisjointSet == InitDisjointSet /\ [][NextDisjointSet]_vars

\* The elements of d and the root of the tree each one hangs in.
Elements(d) == 0..(Len(d.parent) - 1)
Roots(d) == {i \in Elements(d) : d.parent[i + 1] = i}
SetOf(d, i) == {k \in Elements(d) : FindRoot(d.parent, k) = FindRoot(d.parent, i)}
Partition(d) == {SetOf(d, i) : i \in Elements(d)}
Completed == pc = "dsu" /\ call.name # "new"

\* C13: num_sets is the number of sets; a union of elements of different
\* sets returns true, takes one from num_sets and merges the two sets; a
\* union of elements of one set returns false and leaves num_sets and the
\* sets as they were; push adds one set, find and size_of change neither.
C13_NumSets ==
    /\ dsu.num_sets = Cardinality(Roots(dsu))
    /\ dsu.num_sets = Cardinality(Partition(dsu))
    /\ (Completed /\ call.name = "union") =>
          IF SetOf(call.before, call.i) # SetOf(call.before, call.j)
          THEN /\ call.result = TRUE
               /\ dsu.num_sets = call.before.num_sets - 1
               /\ Partition(dsu) =
                     (Partition(call.before)
                        \ {SetOf(call.before, call.i), SetOf(call.before, call.j)})
                     \cup {SetOf(call.before, call.i) \cup SetOf(call.before, call.j)}
          ELSE /\ call.result = FALSE
               /\ dsu.num_sets = call.before.num_sets
               /\ Partition(dsu) = Partition(call.before)
    /\ (Completed /\ call.name \in {"find", "size_of"}) =>
          /\ dsu.num_sets = call.before.num_sets
          /\ Partition(dsu) = Partition(call.before)
    /\ (Completed /\ call.name = "push") =>
          dsu.num_sets = call.before.num_sets + 1

\* A union has merged two sets of two elements each into the only set.
C13_Witness ==
    /\ Completed
    /\ call.name = "union"
    /\ call.result = TRUE
    /\ Cardinality(SetOf(call.before, call.i)) = 2
    /\ Cardinality(SetOf(call.before, call.j)) = 2
    /\ dsu.num_sets = 1

(***************************************************************************)
(* interval_tree.rs and intervaltree.rs: the augmented interval trees.     *)
(* A tree is Nil or a node [interval, max_high, left, right].              *)
(***************************************************************************)
MaxIntervals == 3   \* intervals a tree may hold
MaxEndpoint == 3    \* endpoints are taken from 1..MaxEndpoint

Interval(low, high) == [low |-> low, high |-> high]

\* Node::new (the same in both files)
Node_new(interval) ==
    [interval |-> interval, max_high |-> interval.high, left |-> Nil, right |-> Nil]

\* std::cmp::max
Max2(a, b) == IF a < b THEN b ELSE a

\* Node::update_max_high of interval_tree.rs
interval_tree_update_max_high(n) ==
    LET m0 == n.interval.high
        m1 == IF n.left # Nil THEN Max2(m0, n.left.max_high) ELSE m0
        m2 == IF n.right # Nil THEN Max2(m1, n.right.max_high) ELSE m1
    IN  [n EXCEPT !.max_high = m2]

\* IntervalTree::insert_rec of interval_tree.rs
RECURSIVE interval_tree_insert_rec(_, _)
interval_tree_insert_rec(node, interval) ==
    IF node = Nil THEN Node_new(interval)
    ELSE IF interval.low < node.interval.low
    THEN interval_tree_update_max_high(
             [node EXCEPT !.left = interval_tree_insert_rec(node.left, interval)])
    ELSE interval_tree_update_max_high(
             [node EXCEPT !.right = interval_tree_insert_rec(node.right, interval)])

\* IntervalTree::pop_min of interval_tree.rs: the least interval and the rest
RECURSIVE interval_tree_pop_min(_)
interval_tree_pop_min(node) ==
    IF node.left # Nil
    THEN LET r == interval_tree_pop_min(node.left)
         IN  [interval |-> r.interval,
              rest |-> interval_tree_update_max_high([node EXCEPT !.left = r.rest])]
    ELSE [interval |-> node.interval, rest |-> node.right]

\* IntervalTree::delete_rec of interval_tree.rs
RECURSIVE interval_tree_delete_rec(_, _, _)
interval_tree_delete_rec(node, low, high) ==
    IF node = Nil THEN Nil
    ELSE IF low < node.interval.low
    THEN interval_tree_update_max_high(
             [node EXCEPT !.left = interval_tree_delete_rec(node.left, low, high)])
    ELSE IF low > node.interval.low \/ node.interval.high # high
    THEN interval_tree_update_max_high(
             [node EXCEPT !.right = interval_tree_delete_rec(node.right, low, high)])
    ELSE IF node.left = Nil THEN node.right
    ELSE IF node.right = Nil THEN node.left
    ELSE LET r == interval_tree_pop_min(node.right)
         IN  interval_tree_update_max_high(
                 [node EXCEPT !.interval = r.interval, !.right = r.rest])

\* Node::update_max_high of intervaltree.rs
intervaltree_update_max_high(n) ==
    LET left_max == IF n.left # Nil THEN n.left.max_high ELSE MinInt
        right_max == IF n.right # Nil THEN n.right.max_high ELSE MinInt
    IN  [n EXCEPT !.max_high = Max2(n.max_high, Max2(left_max, right_max))]

\* IntervalTree::insert_rec of intervaltree.rs
RECURSIVE intervaltree_insert_rec(_, _)
intervaltree_insert_rec(node, interval) ==
    IF node = Nil THEN Node_new(interval)
    ELSE IF interval.low < node.interval.low
    THEN intervaltree_update_max_high(
             [node EXCEPT !.left = intervaltree_insert_rec(node.left, interval)])
    ELSE intervaltree_update_max_high(
             [node EXCEPT !.right = intervaltree_insert_rec(node.right, interval)])

\* IntervalTree::pop_min of intervaltree.rs: the least interval and the rest
RECURSIVE intervaltree_pop_min(_)
intervaltree_pop_min(node) ==
    IF node.left # Nil
    THEN LET r == intervaltree_pop_min(node.left)
         IN  [interval |-> r.interval,
              rest |-> intervaltree_update_max_high([node EXCEPT !.left = r.rest])]
    ELSE [interval |-> node.interval, rest |-> node.right]

\* IntervalTree::delete_rec of intervaltree.rs
RECURSIVE intervaltree_delete_rec(_, _, _)
intervaltree_delete_rec(node, low, high) ==
    IF node = Nil THEN Nil
    ELSE IF low < node.interval.low
    THEN intervaltree_update_max_high(
             [node EXCEPT !.left = intervaltree_delete_rec(node.left, low, high)])
    ELSE IF low > node.interval.low \/ node.interval.high # high
    THEN intervaltree_update_max_high(
             [node EXCEPT !.right = intervaltree_delete_rec(node.right, low, high)])
    ELSE IF node.left = Nil THEN node.right
    ELSE IF node.right = Nil THEN node.left
    ELSE LET r == intervaltree_pop_min(node.right)
         IN  intervaltree_update_max_high(
                 [node EXCEPT !.interval = r.interval, !.right = r.rest])

\* IntervalTree::find_all_before_rec of intervaltree.rs: the results pushed
RECURSIVE find_all_before_rec(_, _)
find_all_before_rec(node, p) ==
    IF node = Nil THEN <<>>
    ELSE find_all_before_rec(node.left, p)
         \o (IF node.interval.high < p
             THEN <<node.interval>> \o find_all_before_rec(node.right, p)
             ELSE <<>>)

\* The intervals the calls are made with.
Intervals ==
    {iv \in {Interval(low, high) : low \in 1..MaxEndpoint, high \in 1..MaxEndpoint} :
        iv.low <= iv.high}

\* The intervals of a tree, left to right.
RECURSIVE InOrder(_)
InOrder(node) ==
    IF node = Nil THEN <<>>
    ELSE InOrder(node.left) \o <<node.interval>> \o InOrder(node.right)

\* Everything but the trees stays as it is.
TreeFrame ==
    UNCHANGED <<builderVars, solver, bnbVars, simplexVars, solution, dsu,
                stack, best>>

\* IntervalTree::new of one of the two files
InitIntervalTree ==
    /\ pc \in {"interval_tree", "intervaltree"}
    /\ interval_tree = Nil
    /\ intervaltree = Nil
    /\ stack = <<>>
    /\ best = None
    /\ dsu = [parent |-> <<>>, size |-> <<>>, num_sets |-> 0]
    /\ objective = <<>>
    /\ constraints = <<>>
    /\ ans = <<>>
    /\ ops = <<>>
    /\ call = NoCall
    /\ solver = NoSolver
    /\ queue = <<>>
    /\ best_solution = None
    /\ best_minima = F64Max
    /\ lp = new
    /\ nodes = 0
    /\ stage = 0
    /\ b_columns = <<>>
    /\ n_columns = <<>>
    /\ iterations = 0
    /\ step = NoStep
    /\ solution = NoResult

\* interval_tree.rs, IntervalTree::insert
interval_tree_insert(low, high) ==
    /\ pc = "interval_tree"
    /\ Len(InOrder(interval_tree)) < MaxIntervals
    /\ interval_tree' = interval_tree_insert_rec(interval_tree, Interval(low, high))
    /\ call' = [name |-> "insert", low |-> low, high |-> high, before |-> interval_tree]
    /\ UNCHANGED <<pc, intervaltree>>
    /\ TreeFrame

\* interval_tree.rs, IntervalTree::delete
interval_tree_delete(low, high) ==
    /\ pc = "interval_tree"
    /\ interval_tree' = interval_tree_delete_rec(interval_tree, low, high)
    /\ call' = [name |-> "delete", low |-> low, high |-> high, before |-> interval_tree]
    /\ UNCHANGED <<pc, intervaltree>>
    /\ TreeFrame

\* intervaltree.rs, IntervalTree::insert
intervaltree_insert(low, high) ==
    /\ pc = "intervaltree"
    /\ Len(InOrder(intervaltree)) < MaxIntervals
    /\ intervaltree' = intervaltree_insert_rec(intervaltree, Interval(low, high))
    /\ call' = [name |-> "insert", low |-> low, high |-> high, before |-> intervaltree]
    /\ UNCHANGED <<pc, interval_tree>>
    /\ TreeFrame

\* intervaltree.rs, IntervalTree::delete
intervaltree_delete(low, high) ==
    /\ pc = "intervaltree"
    /\ intervaltree' = intervaltree_delete_rec(intervaltree, low, high)
    /\ call' = [name |-> "delete", low |-> low, high |-> high, before |-> intervaltree]
    /\ UNCHANGED <<pc, interval_tree>>
    /\ TreeFrame

\* intervaltree.rs, IntervalTree::find_all_before
find_all_before(p) ==
    /\ pc = "intervaltree"
    /\ call' = [name |-> "find_all_before", p |-> p,
                result |-> find_all_before_rec(intervaltree, p), before |-> intervaltree]
    /\ UNCHANGED <<pc, interval_tree, intervaltree>>
    /\ TreeFrame

NextIntervalTree ==
    \/ \E iv \in Intervals : interval_tree_insert(iv.low, iv.high)
    \/ \E iv \in Intervals : interval_tree_delete(iv.low, iv.high)
    \/ \E iv \in Intervals : intervaltree_insert(iv.low, iv.high)
    \/ \E iv \in Intervals : intervaltree_delete(iv.low, iv.high)
    \/ \E p \in 1..(MaxEndpoint + 1) : find_all_before(p)

SpecIntervalTree == InitIntervalTree /\ [][NextIntervalTree]_vars

\* The greatest high endpoint stored in a subtree that is not Nil.
SubtreeMaxHigh(node) ==
    LET ivs == InOrder(node)
    IN  CHOOSE h \in {ivs[k].high : k \in 1..Len(ivs)} :
            \A k \in 1..Len(ivs) : ivs[k].high <= h

RECURSIVE Augmented(_)
Augmented(node) ==
    \/ node = Nil
    \/ /\ node.max_high = SubtreeMaxHigh(node)
       /\ Augmented(node.left)
       /\ Augmented(node.right)

\* C14: in the trees of both files every node's max_high is the greatest
\* high endpoint stored in the node's subtree.
C14_MaxHigh ==
    /\ Augmented(interval_tree)
    /\ Augmented(intervaltree)

Count(seq, iv) == Cardinality({k \in 1..Len(seq) : seq[k] = iv})

\* C15: find_all_before(p) returns the stored intervals with high < p, each
\* as many times as it is stored, in ascending order of low.
C15_FindAllBefore ==
    call.name = "find_all_before" =>
        /\ \A iv \in Intervals :
              Count(call.result, iv) =
                 (IF iv.high < call.p THEN Count(InOrder(intervaltree), iv) ELSE 0)
        /\ \A k \in 1..(Len(call.result) - 1) :
              call.result[k].low <= call.result[k + 1].low

(***************************************************************************)
(* Properties of the basis kept by _revised_simplex_method.                *)
(***************************************************************************)
\* The objective row the stage optimizes (lines 265 and 280).
StageObjective == IF stage = 1 THEN solver.p1_objective ELSE solver.c

Pivoted == step.kind \in {"pivot", "MaxIterationsReached"}

\* Row i of the identity matrix of order m, as rationals.
UnitVector(i, m) == Force([k \in 1..m |-> IF k = i THEN One ELSE Zero])

\* The basis bcols of solver s is in canonical form for objective obj.
Canonical(s, obj, bcols) ==
    LET m == Len(s.constraints)
        B == select_columns(s.constraints, bcols)
        Binv == try_inverse(B)
        y == MatVec(try_inverse(transpose(B)), select_rows(obj, bcols))
    IN  /\ Len(bcols) = m
        /\ \A i, k \in 1..m : bcols[i] = bcols[k] => i = k
        /\ Binv # NoInverse
        /\ \A i \in 1..m :
              /\ MatVec(Binv, column(s.constraints, bcols[i])) = UnitVector(i, m)
              /\ RSub(FromInt(obj[bcols[i] + 1]),
                      Dot(column(s.constraints, bcols[i]), y)) = Zero

\* C16: after every pivot of Phase 1 and of Phase 2 the basis holds one
\* column for each constraint row, no column twice, its columns are
\* linearly independent, and in the basis inverse times the constraint
\* matrix the basic column of row i is 1 in row i and 0 in the other rows,
\* with reduced cost 0 in the objective row of the stage.
C16_CanonicalForm ==
    (Pivoted /\ stage \in {1, 2}) => Canonical(solver, StageObjective, b_columns)

\* A second pivot of Phase 2 has been made.
C16_Witness ==
    /\ step.kind = "pivot"
    /\ stage = 2
    /\ iterations >= 2
    /\ Canonical(solver, StageObjective, b_columns)

\* The values of the basic variables of basis bcols: the basis inverse times b.
BasisSolution(s, bcols) ==
    MatVec(try_inverse(select_columns(s.constraints, bcols)), RVec(s.b))

\* Column j (0-based) of s is an artificial column.
IsArtificial(s, j) == j >= s.artificial_var_start

\* C17: whenever solve() returns Ok, in the full vector it read off the
\* final basis every artificial variable is 0 and every variable is >= 0,
\* and the returned point satisfies every constraint of the system; an
\* artificial column that is basic during Phase 2 never has a non-zero
\* value.
C17_RelaxationFeasible ==
    /\ (Solved /\ solution.ok) =>
          /\ step.kind = "optimal"
          /\ \A j \in 1..Len(step.solution) :
                /\ RLe(Zero, step.solution[j])
                /\ IsArtificial(solver, j - 1) => step.solution[j] = Zero
          /\ Satisfies(lp, solution.solution)
    /\ (InLoop /\ stage = 2) =>
          \A i \in 1..Len(b_columns) :
              IsArtificial(solver, b_columns[i]) =>
                  BasisSolution(solver, b_columns)[i] = Zero

\* lines 295-298: the columns stage stg may bring into the basis
AllowedRange(s, stg) ==
    0..((IF stg = 1 THEN Len(s.constraints[1]) ELSE s.artificial_var_start) - 1)

Columns(cols) == {cols[k] : k \in 1..Len(cols)}

\* The reduced cost of column j under objective obj at basis bcols.
ReducedCost(s, obj, bcols, j) ==
    LET B == select_columns(s.constraints, bcols)
        y == MatVec(try_inverse(transpose(B)), select_rows(obj, bcols))
    IN  RSub(FromInt(obj[j + 1]), Dot(column(s.constraints, j), y))

\* The allowed columns that are not basic in bcols.
AllowedNonBasic(s, stg, bcols) == AllowedRange(s, stg) \ Columns(bcols)

\* The stage is declared optimal only when no allowed column outside the
\* basis has a negative reduced cost.
OptimalOnlyWithoutNegative ==
    (step.kind = "optimal" /\ stage \in {1, 2}) =>
        \A j \in AllowedNonBasic(solver, stage, step.basis) :
            RLe(Zero, ReducedCost(solver, StageObjective, step.basis, j))

\* C18: at every iteration of the loop the basic list and the non-basic
\* candidate list have no column in common and together hold every column
\* of the stage's allowed range, the basis holds no column twice, and the
\* stage is declared optimal only when no allowed column outside the basis
\* has a negative reduced cost.
C18_Partition ==
    /\ (InLoop /\ stage \in {1, 2}) =>
          /\ Columns(b_columns) \cap Columns(n_columns) = {}
          /\ AllowedRange(solver, stage) \subseteq
                (Columns(b_columns) \cup Columns(n_columns))
          /\ \A i, k \in 1..Len(b_columns) : b_columns[i] = b_columns[k] => i = k
    /\ OptimalOnlyWithoutNegative

\* C19: at every pivot the entering column is basic in no row and lies in
\* the stage's allowed range, no allowed column outside the basis has a
\* lower reduced cost, among those of equal reduced cost it has the lowest
\* index, and a stage where no such column has a negative reduced cost
\* stops as optimal instead of choosing a column.
C19_EnteringRule ==
    (HasEntering /\ stage \in {1, 2}) =>
        LET candidates == AllowedNonBasic(solver, stage, step.basis)
            rc(j) == ReducedCost(solver, StageObjective, step.basis, j)
        IN  /\ step.entering_index \in candidates
            /\ RLt(rc(step.entering_index), Zero)
            /\ \A j \in candidates :
                  /\ RLe(rc(step.entering_index), rc(j))
                  /\ rc(j) = rc(step.entering_index) => step.entering_index <= j

\* The ratio of row i at the pivot recorded in step: the value of the basic
\* variable of the row over the row's coefficient in the entering column.
PivotRatio(i) ==
    RDiv(BasisSolution(solver, step.basis)[i], step.pivot_column_vector[i])

\* The rows with a strictly positive coefficient in the entering column.
PositiveRows ==
    {i \in 1..Len(step.pivot_column_vector) : RLt(Zero, step.pivot_column_vector[i])}

\* C20: at every pivot the leaving row has a strictly positive coefficient
\* in the entering column, no row with a strictly positive coefficient has
\* a smaller ratio of basic value to coefficient, among the rows of equal
\* ratio it has the lowest index, only that row of the basis changes, and
\* every basic value is >= 0 before and after the pivot.
C20_LeavingRule ==
    (Pivoted /\ stage \in {1, 2}) =>
        /\ step.leaving_col \in PositiveRows
        /\ \A i \in PositiveRows :
              /\ RLe(PivotRatio(step.leaving_col), PivotRatio(i))
              /\ PivotRatio(i) = PivotRatio(step.leaving_col) => step.leaving_col <= i
        /\ step.b_columns = [step.basis EXCEPT ![step.leaving_col] = step.entering_index]
        /\ NonNegative(BasisSolution(solver, step.basis))
        /\ NonNegative(BasisSolution(solver, step.b_columns))

\* A pivot where two rows tie for the least ratio and the first one leaves.
C20_Witness ==
    /\ step.kind = "pivot"
    /\ \E i \in PositiveRows :
          /\ i > step.leaving_col
          /\ PivotRatio(i) = PivotRatio(step.leaving_col)
    /\ \E i \in PositiveRows : RLt(PivotRatio(step.leaving_col), PivotRatio(i))
    /\ NonNegative(BasisSolution(solver, b_columns))

\* An artificial column outside the basis of the pivot recorded in step has
\* a negative reduced cost.
ArtificialAttractive ==
    \E j \in 0..(Len(solver.constraints[1]) - 1) :
        /\ IsArtificial(solver, j)
        /\ j \notin Columns(step.basis)
        /\ RLt(ReducedCost(solver, StageObjective, step.basis, j), Zero)

\* C21: in every iteration of Phase 2 the entering column lies below
\* artificial_var_start, and no artificial column is a candidate of Phase 2,
\* whether it left the basis in Phase 1 or in Phase 2.
C21_NoArtificialEntering ==
    /\ (HasEntering /\ stage = 2) =>
          /\ ~IsArtificial(solver, step.entering_index)
          /\ step.entering_index \in AllowedRange(solver, 2)
    /\ (InLoop /\ stage = 2) =>
          \A k \in 1..Len(n_columns) : ~IsArtificial(solver, n_columns[k])

\* Phase 2 chooses an entering column while an artificial column that is
\* not basic has a negative reduced cost.
C21_Witness ==
    /\ HasEntering
    /\ stage = 2
    /\ ArtificialAttractive
    /\ ~IsArtificial(solver, step.entering_index)

\* Phase 1 has succeeded and Phase 2 has not made a step yet.
Phase2Start ==
    /\ pc = "simplex"
    /\ stage = 2
    /\ iterations = 0
    /\ step.kind = "phase1"

\* Row i of the basis inverse times column j of the constraint matrix.
TableauEntry(s, bcols, i, j) ==
    MatVec(try_inverse(select_columns(s.constraints, bcols)), column(s.constraints, j))[i]

\* Row i of basis bcols could give up its basic column for a column that
\* is neither artificial nor basic.
Replaceable(s, bcols, i) ==
    \E j \in 0..(s.artificial_var_start - 1) :
        /\ j \notin Columns(bcols)
        /\ TableauEntry(s, bcols, i, j) # Zero

\* C22: the basis handed to Phase 2 after a successful Phase 1 holds an
\* artificial column (at value zero) only in rows where no column that is
\* neither artificial nor basic has a non-zero coefficient.
C22_DegenerateCleanup ==
    Phase2Start =>
        \A i \in 1..Len(b_columns) :
            IsArtificial(solver, b_columns[i]) =>
                /\ BasisSolution(solver, b_columns)[i] = Zero
                /\ ~Replaceable(solver, b_columns, i)

(***************************************************************************)
(* Properties of the standard form made by build.                          *)
(***************************************************************************)
\* The number of rows of builder b whose operator is in S.
CountOps(b, S) == Cardinality({i \in 1..Len(b.ops) : b.ops[i] \in S})

\* The node lp has been built into solver.
BuiltNode ==
    /\ pc \in {"simplex", "returned", "solved"}
    /\ solver.status = "ok"

NumSlack(s) == s.artificial_var_start - s.slack_var_start
NumArtificial(s) == Len(s.constraints[1]) - s.artificial_var_start

\* The columns are the decision columns, then the slack and surplus
\* columns, then the artificial columns, and the two objectives agree.
Layout(b, s) ==
    /\ s.slack_var_start = Len(b.constraints[1])
    /\ s.slack_var_start <= s.artificial_var_start
    /\ s.artificial_var_start <= Len(s.constraints[1])
    /\ \A i \in 1..Len(s.constraints) :
          /\ Len(s.constraints[i]) = Len(s.constraints[1])
          /\ SubSeq(s.constraints[i], 1, s.slack_var_start) = b.constraints[i]
    /\ Len(s.p1_objective) = Len(s.constraints[1])
    /\ \A j \in 1..Len(s.p1_objective) :
          s.p1_objective[j] = (IF IsArtificial(s, j - 1) THEN 1 ELSE 0)
    /\ NumSlack(s) = CountOps(b, {"Lte", "Gte"})

\* C23: the built form of a system of m constraints has one slack or
\* surplus column for each Lte and each Gte constraint and one artificial
\* column for every constraint, those of Lte constraints included, laid out
\* as decision columns, then slack and surplus columns, then artificial
\* columns.
C23_AuxiliaryCounts ==
    BuiltNode =>
        /\ Layout(lp, solver)
        /\ NumArtificial(solver) = Len(lp.constraints)

\* C23 as stated: an artificial column for each Gte and each Eq constraint
\* and none for an Lte constraint.
C23_AsStated ==
    BuiltNode =>
        /\ Layout(lp, solver)
        /\ NumArtificial(solver) = CountOps(lp, {"Gte", "Eq"})

\* A system with an Lte, a Gte and an Eq row has been built.
C23_Witness ==
    /\ BuiltNode
    /\ CountOps(lp, {"Lte"}) >= 1
    /\ CountOps(lp, {"Gte"}) >= 1
    /\ CountOps(lp, {"Eq"}) >= 1
    /\ NumArtificial(solver) = 3

\* Phase 1 is about to make its first step on the node lp.
Phase1Start ==
    /\ pc = "simplex"
    /\ stage = 1
    /\ iterations = 0
    /\ step = NoStep

\* The slack or surplus column of row i of b (0-based column index).
OwnSlack(b, s, i) ==
    s.slack_var_start + Cardinality({k \in 1..(i - 1) : b.ops[k] # "Eq"})

\* The artificial column of row i (0-based column index).
OwnArtificial(s, i) == s.artificial_var_start + i - 1

\* The rows in which column j of s is not zero.
RowsOf(s, j) == {i \in 1..Len(s.constraints) : s.constraints[i][j + 1] # 0}

\* The coefficients build gives row i in the auxiliary columns.
RowConstruction(b, s, i) ==
    /\ s.constraints[i][OwnArtificial(s, i) + 1] = 1
    /\ RowsOf(s, OwnArtificial(s, i)) = {i}
    /\ b.ops[i] = "Lte" =>
          /\ s.constraints[i][OwnSlack(b, s, i) + 1] = 1
          /\ RowsOf(s, OwnSlack(b, s, i)) = {i}
    /\ b.ops[i] = "Gte" =>
          /\ s.constraints[i][OwnSlack(b, s, i) + 1] = 0 - 1
          /\ RowsOf(s, OwnSlack(b, s, i)) = {i}
    /\ b.ops[i] = "Eq" =>
          \A j \in s.slack_var_start..(s.artificial_var_start - 1) :
              s.constraints[i][j + 1] = 0
    /\ s.b[i] = b.ans[i]

\* C24: in the built form an Lte row has +1 in its own slack column, a Gte
\* row -1 in its own surplus column, an Eq row no slack or surplus column,
\* every row has +1 in its own artificial column, each auxiliary column is
\* non-zero in exactly one row, and the initial basic variable of every
\* row, an Lte row included, is the row's artificial column.
C24_RowConstruction ==
    Phase1Start =>
        /\ Len(b_columns) = Len(lp.constraints)
        /\ \A i \in 1..Len(lp.constraints) :
              /\ RowConstruction(lp, solver, i)
              /\ b_columns[i] = OwnArtificial(solver, i)
        /\ \A j \in solver.slack_var_start..(Len(solver.constraints[1]) - 1) :
              Cardinality(RowsOf(solver, j)) = 1

\* C24 as stated: the initial basic variable of an Lte row is its slack
\* column, that of a Gte or Eq row its artificial column.
C24_AsStated ==
    Phase1Start =>
        /\ Len(b_columns) = Len(lp.constraints)
        /\ \A i \in 1..Len(lp.constraints) :
              /\ RowConstruction(lp, solver, i)
              /\ b_columns[i] = (IF lp.ops[i] = "Lte" THEN OwnSlack(lp, solver, i)
                                  ELSE OwnArtificial(solver, i))
        /\ \A j \in solver.slack_var_start..(Len(solver.constraints[1]) - 1) :
              Cardinality(RowsOf(solver, j)) = 1

\* Phase 1 starts on a system whose rows are a Gte, an Lte and an Eq row.
C24_Witness ==
    /\ Phase1Start
    /\ \E i, k, l \in 1..Len(lp.ops) :
          /\ i < k
          /\ lp.ops[i] = "Gte"
          /\ lp.ops[k] = "Lte"
          /\ lp.ops[l] = "Eq"
    /\ \A i \in 1..Len(lp.ops) : b_columns[i] = OwnArtificial(solver, i)

(***************************************************************************)
(* Properties of the nodes of branch_and_bound.                            *)
(***************************************************************************)
\* solve() has returned Ok for the node lp and the match is about to run.
NodeSolved == pc = "solved" /\ solution.ok

\* The relaxation of the node is no better than the incumbent.
Bounded == RLe(best_minima, solution.minima)

\* The node is dropped: nothing is recorded and nothing is enqueued.
Discarded == UNCHANGED <<queue, best_solution, best_minima>>

\* The node is recorded as the incumbent.
Recorded ==
    /\ best_solution' = Some(solution)
    /\ best_minima' = solution.minima
    /\ queue' = queue

\* The two children of the node lp for variable k (0-based) of its solution.
ChildLower(k) ==
    [lp EXCEPT !.constraints = Append(@, [j \in 1..Len(solution.solution) |->
                                              IF j = k + 1 THEN 1 ELSE 0]),
               !.ops = Append(@, "Lte"),
               !.ans = Append(@, Floor(solution.solution[k + 1]))]
ChildUpper(k) ==
    [lp EXCEPT !.constraints = Append(@, [j \in 1..Len(solution.solution) |->
                                              IF j = k + 1 THEN 1 ELSE 0]),
               !.ops = Append(@, "Gte"),
               !.ans = Append(@, Ceil(solution.solution[k + 1]))]

Appended == {queue'[i] : i \in (Len(queue) + 1)..Len(queue')}

\* The node is branched: both children of every fractional variable the
\* loop visits are enqueued behind the nodes already waiting.
BranchedInFull ==
    /\ UNCHANGED <<best_solution, best_minima>>
    /\ Len(queue') >= Len(queue)
    /\ SubSeq(queue', 1, Len(queue)) = queue
    /\ Len(queue') = Len(queue) + 2 * Cardinality(FractionalVariables(solution))
    /\ \A k \in FractionalVariables(solution) :
          {ChildLower(k), ChildUpper(k)} \subseteq Appended

\* C25: a node whose relaxation value is >= the best integer value found
\* so far is dropped without a change of the incumbent or of the queue, and
\* a node whose relaxation value is strictly below it is either recorded
\* as the incumbent or branched with all its children enqueued.
C25_PruningRule ==
    [][NodeSolved =>
          IF Bounded THEN Discarded
          ELSE IF is_integer_solution(solution) THEN Recorded
          ELSE BranchedInFull]_vars

\* The node is to be branched: it is not pruned and not integer.
ToBranch == NodeSolved /\ ~Bounded /\ ~is_integer_solution(solution)

\* C26: a node that is not pruned and has a fractional variable is branched
\* on one variable only, the fractional variable of lowest index, and
\* exactly its two children, with x_k <= floor(v) and with x_k >= ceil(v),
\* are added behind the nodes already waiting.
C26_BranchingStep ==
    [][ToBranch =>
          LET k == SetMin(FractionalVariables(solution))
          IN  /\ Len(queue') = Len(queue) + 2
              /\ SubSeq(queue', 1, Len(queue)) = queue
              /\ Appended = {ChildLower(k), ChildUpper(k)}]_vars

\* C27: during a run of branch_and_bound the best objective never goes up;
\* it changes only when the node just solved has an integer value in every
\* decision variable and an objective strictly below it, and then the
\* node's solution is recorded with it; at every moment the recorded
\* solution, if there is one, has the recorded objective as its value.
C27_IncumbentMonotone ==
    /\ [](IF best_solution.some
          THEN /\ best_solution.minima = best_minima
               /\ ObjectiveAt(self, best_solution.solution) = best_minima
          ELSE best_minima = F64Max)
    /\ [][RLe(best_minima', best_minima)]_vars
    /\ [][(best_minima' # best_minima \/ best_solution' # best_solution) =>
            /\ NodeSolved
            /\ \A i \in 1..Len(solution.solution) : IsInteger(solution.solution[i])
            /\ RLt(solution.minima, best_minima)
            /\ best_minima' = solution.minima
            /\ best_solution' = Some(solution)]_vars

\* An integer node strictly better than the incumbent already recorded has
\* been solved.
C27_Witness ==
    /\ NodeSolved
    /\ best_solution.some
    /\ is_integer_solution(solution)
    /\ RLt(solution.minima, best_minima)

\* The run has popped every node it is allowed and work is still queued.
OutOfNodes == pc = "loop" /\ queue # <<>> /\ nodes = MaxNodes

\* The root has a feasible relaxation, an unbounded feasible region and no
\* integer point.
UnboundedWithoutIntegerPoint ==
    /\ Feasible(self)
    /\ ~RegionBounded(self)
    /\ IntegerPoints(self) = {}

\* C28: branch_and_bound returns for every input: also when the relaxation
\* is feasible in an unbounded direction and the system has no integer
\* point, the queue is empty before MaxNodes nodes have been popped.
C28_Termination == UnboundedWithoutIntegerPoint => ~OutOfNodes

\* Row i of node bounds a single variable: one coefficient 1, the others 0,
\* with operator >= or <=.
BoundRow(node, i) ==
    /\ Len(node.constraints[i]) = Len(self.objective)
    /\ \E k \in 1..Len(node.constraints[i]) :
          \A j \in 1..Len(node.constraints[i]) :
              node.constraints[i][j] = IF j = k THEN 1 ELSE 0
    /\ node.ops[i] \in {"Gte", "Lte"}

\* node is the caller's system followed by bound rows only.
ExtendsRoot(node) ==
    /\ node.objective = self.objective
    /\ Len(node.constraints) >= Len(self.constraints)
    /\ Len(node.ans) = Len(node.constraints)
    /\ Len(node.ops) = Len(node.constraints)
    /\ SubSeq(node.constraints, 1, Len(self.constraints)) = self.constraints
    /\ SubSeq(node.ans, 1, Len(self.ans)) = self.ans
    /\ SubSeq(node.ops, 1, Len(self.ops)) = self.ops
    /\ \A i \in (Len(self.constraints) + 1)..Len(node.constraints) : BoundRow(node, i)

\* queue2 is queue1 with nodes appended at the back.
IsPrefix(queue1, queue2) ==
    /\ Len(queue1) <= Len(queue2)
    /\ SubSeq(queue2, 1, Len(queue1)) = queue1

\* C29: every queued node, and the node being solved, is the caller's
\* system with its objective and rows unchanged and in order, followed
\* only by single-variable bound rows; no step changes the caller's
\* system; popping a node removes the head only and solves it from a
\* standard form built from that node; creating children leaves the parent
\* and the nodes already queued as they are and appends at the back.
C29_NodeIndependence ==
    /\ [](\A i \in 1..Len(queue) : ExtendsRoot(queue[i]))
    /\ [](nodes > 0 => ExtendsRoot(lp) /\ solver = build(lp))
    /\ [][UNCHANGED builderVars]_vars
    /\ [][nodes' # nodes =>
            /\ lp' = Head(queue)
            /\ queue' = Tail(queue)
            /\ solver' = build(Head(queue))]_vars
    /\ [][nodes' = nodes => /\ lp' = lp
                            /\ solver' = solver
                            /\ IsPrefix(queue, queue')]_vars

\* a node with two bound rows is being solved while other nodes wait
C29_Witness ==
    /\ pc = "simplex"
    /\ Len(lp.constraints) >= Len(self.constraints) + 2
    /\ queue # <<>>

(***************************************************************************)
(* year2025::day10::branch_and_bound, run after the branch_and_bound of    *)
(* utils::simplex on the same system.                                      *)
(***************************************************************************)
\* Option<i64>::Some
SomeValue(v) == [some |-> TRUE, value |-> v]

\* The vertices of b where the objective is least.
OptimalVertices(b) ==
    {x \in Vertices(b) : \A v \in Vertices(b) : RLe(ObjectiveAt(b, x), ObjectiveAt(b, v))}

\* minimize() of a built system: None when the system is infeasible or the
\* objective unbounded, else the least value of the objective.
minimize(b) ==
    IF ~Feasible(b) \/ ~ObjectiveBounded(b)
    THEN None
    ELSE [some |-> TRUE,
          value |-> ObjectiveAt(b, CHOOSE x \in OptimalVertices(b) : TRUE)]

\* solution_x() after a successful minimize(): the decision variables at a
\* point where the least value is attained.
solution_x(b) == OptimalVertices(b)

\* Ratio::to_integer: truncation towards zero
ToInteger(v) == IF v[1] >= 0 THEN v[1] \div v[2] ELSE 0 - ((0 - v[1]) \div v[2])

\* day10.rs line 59: the first variable of x that is not an integer (0-based)
FirstFractional(x) == SetMin({k \in 1..Len(x) : ~IsInteger(x[k])}) - 1

\* day10.rs lines 60-69: the two sub-problems pushed for variable k of x,
\* in the order they are pushed
Day10Children(b, x, k) ==
    LET lo == Floor(x[k + 1])
        hi == Ceil(x[k + 1])
        v == Force([j \in 1..Len(b.objective) |-> IF j = k + 1 THEN 1 ELSE 0])
        b_le == add_constraint(b, v, "Lte", lo)
        b_ge == add_constraint(b, v, "Gte", hi)
    IN  <<b_le, b_ge>>

\* part2 (line 83) calls branch_and_bound of day10.rs on the system the
\* other branch_and_bound has just returned from.
Day10Call ==
    /\ pc = "done"
    /\ pc' = "day10"
    /\ call' = [name |-> "day10::branch_and_bound"]
    /\ stack' = <<self>>
    /\ best' = None
    /\ nodes' = 0
    /\ UNCHANGED <<builderVars, solver, queue, best_solution, best_minima, lp,
                   simplexVars, solution, dsu, interval_tree, intervaltree>>

\* day10.rs lines 48-74: one pass through the loop
Day10Iteration ==
    /\ pc = "day10"
    /\ stack # <<>>
    /\ nodes < MaxNodes
    /\ nodes' = nodes + 1
    /\ LET b == stack[Len(stack)]
           rest == SubSeq(stack, 1, Len(stack) - 1)
           obj == minimize(b)
       IN  /\ lp' = b
           /\ IF ~obj.some
              THEN stack' = rest /\ best' = best
              ELSE IF best.some /\ Ceil(obj.value) >= best.value
              THEN stack' = rest /\ best' = best
              ELSE \E x \in solution_x(b) :
                      IF \E k \in 1..Len(x) : ~IsInteger(x[k])
                      THEN /\ stack' = rest \o Day10Children(b, x, FirstFractional(x))
                           /\ best' = best
                      ELSE /\ stack' = rest
                           /\ best' = SomeValue(IF best.some /\ best.value < ToInteger(obj.value)
                                                 THEN best.value ELSE ToInteger(obj.value))
    /\ UNCHANGED <<builderVars, call, pc, solver, queue, best_solution, best_minima,
                   simplexVars, solution, dsu, interval_tree, intervaltree>>

\* day10.rs line 75: the stack is empty
Day10Return ==
    /\ pc = "day10"
    /\ stack = <<>>
    /\ pc' = "day10_done"
    /\ UNCHANGED <<builderVars, call, solver, bnbVars, simplexVars, solution, utilVars>>

NextOrder ==
    \/ Next
    \/ Day10Call
    \/ Day10Iteration
    \/ Day10Return

SpecOrder == Init /\ [][NextOrder]_vars

\* Both searches have returned.
BothReturned == pc = "day10_done"

\* C30: on a system on which both searches return, the first-in-first-out
\* search of utils::simplex and the last-in-first-out search of day10
\* return the same objective value, and one returns None exactly when the
\* other does.
C30_OrderIndependence ==
    BothReturned =>
        /\ best.some <=> best_solution.some
        /\ best.some => FromInt(best.value) = best_solution.minima
====
